---- MODULE Spec2Model ----
(***************************************************************************)
(* Model of programs/lockup/src/calculator.rs: the unlock-schedule         *)
(* calculator of a vesting account.                                        *)
(*                                                                         *)
(* linear_unlock computes in f64.  TLC integers are 32 bits wide, so an    *)
(* f64 is modelled here as sign, 53-bit significand and exponent, the      *)
(* significand being an arbitrary-precision natural number (little-endian  *)
(* limbs), and every f64 operation rounds to nearest, ties to even, as     *)
(* IEEE 754 binary64 does.  For operands derived from 64-bit integers the  *)
(* exponent never leaves the normal range, so subnormals and overflow to   *)
(* infinity by rounding do not arise.                                      *)
(*                                                                         *)
(* For the same reason every u64 and i64 of the program is such a natural  *)
(* number here, which puts the values from 2^53 on, where `as f64` rounds, *)
(* within reach.  Timestamps are non-negative.                             *)
(***************************************************************************)
EXTENDS Integers, Sequences, FiniteSets, TLC

(***************************************************************************)
(* Arbitrary-precision naturals: little-endian sequences of limbs in       *)
(* 0..Base-1 without most-significant zero limbs; zero is <<>>.            *)
(***************************************************************************)
LimbBits == 14

RECURSIVE Pow2(_)
Pow2(n) == IF n = 0 THEN 1 ELSE 2 * Pow2(n - 1)

Base == Pow2(LimbBits)

RECURSIVE BigTrim(_)
BigTrim(a) ==
    IF a = <<>> THEN <<>>
    ELSE IF a[Len(a)] = 0 THEN BigTrim(SubSeq(a, 1, Len(a) - 1))
    ELSE a

RECURSIVE BigFromNat(_)
BigFromNat(n) == IF n = 0 THEN <<>> ELSE <<n % Base>> \o BigFromNat(n \div Base)

\* Number of bits of a limb value (0 for 0).
RECURSIVE NatBitLen(_)
NatBitLen(n) == IF n = 0 THEN 0 ELSE 1 + NatBitLen(n \div 2)

BigBitLen(a) == IF a = <<>> THEN 0 ELSE LimbBits * (Len(a) - 1) + NatBitLen(a[Len(a)])

\* -1, 0, 1 as a < b, a = b, a > b.
RECURSIVE BigCmpFrom(_, _, _)
BigCmpFrom(a, b, i) ==
    IF i = 0 THEN 0
    ELSE IF a[i] < b[i] THEN -1
    ELSE IF a[i] > b[i] THEN 1
    ELSE BigCmpFrom(a, b, i - 1)

BigCmp(a, b) ==
    IF Len(a) < Len(b) THEN -1
    ELSE IF Len(a) > Len(b) THEN 1
    ELSE BigCmpFrom(a, b, Len(a))

BigLimb(a, i) == IF i >= 1 /\ i <= Len(a) THEN a[i] ELSE 0

RECURSIVE BigAddFrom(_, _, _, _)
BigAddFrom(a, b, i, carry) ==
    IF i > Len(a) /\ i > Len(b)
    THEN IF carry = 0 THEN <<>> ELSE <<carry>>
    ELSE LET s == BigLimb(a, i) + BigLimb(b, i) + carry
         IN  <<s % Base>> \o BigAddFrom(a, b, i + 1, s \div Base)

BigAdd(a, b) == BigAddFrom(a, b, 1, 0)

\* a - b for a >= b.
RECURSIVE BigSubFrom(_, _, _, _)
BigSubFrom(a, b, i, borrow) ==
    IF i > Len(a) THEN <<>>
    ELSE LET d == a[i] - BigLimb(b, i) - borrow
         IN  IF d < 0
             THEN <<d + Base>> \o BigSubFrom(a, b, i + 1, 1)
             ELSE <<d>> \o BigSubFrom(a, b, i + 1, 0)

BigSub(a, b) == BigTrim(BigSubFrom(a, b, 1, 0))

\* a * k for a limb-sized k (0 <= k < Base).
RECURSIVE BigMulLimbFrom(_, _, _, _)
BigMulLimbFrom(a, k, i, carry) ==
    IF i > Len(a)
    THEN IF carry = 0 THEN <<>> ELSE <<carry>>
    ELSE LET p == a[i] * k + carry
         IN  <<p % Base>> \o BigMulLimbFrom(a, k, i + 1, p \div Base)

BigMulLimb(a, k) == IF k = 0 THEN <<>> ELSE BigMulLimbFrom(a, k, 1, 0)

\* a * Base^n.
RECURSIVE BigShlLimbs(_, _)
BigShlLimbs(a, n) ==
    IF a = <<>> \/ n = 0 THEN a ELSE BigShlLimbs(<<0>> \o a, n - 1)

RECURSIVE BigMulFrom(_, _, _)
BigMulFrom(a, b, j) ==
    IF j > Len(b) THEN <<>>
    ELSE BigAdd(BigShlLimbs(BigMulLimb(a, b[j]), j - 1), BigMulFrom(a, b, j + 1))

BigMul(a, b) == BigMulFrom(a, b, 1)

\* a * 2^k.
BigShl(a, k) == BigShlLimbs(BigMulLimb(a, Pow2(k % LimbBits)), k \div LimbBits)

\* floor(a / 2^r) for 0 <= r < LimbBits.
BigShrBits(a, r) ==
    LET d == Pow2(r)
        u == Pow2(LimbBits - r)
    IN  BigTrim([i \in 1..Len(a) |-> (a[i] \div d) + (BigLimb(a, i + 1) % d) * u])

\* floor(a / 2^k).
BigShr(a, k) ==
    LET q == k \div LimbBits
    IN  IF q >= Len(a) THEN <<>>
        ELSE BigShrBits(SubSeq(a, q + 1, Len(a)), k % LimbBits)

\* a mod 2^k.
BigLow(a, k) ==
    LET q == k \div LimbBits
        r == k % LimbBits
    IN  IF q >= Len(a) THEN a
        ELSE BigTrim([i \in 1..(q + 1) |-> IF i <= q THEN a[i] ELSE a[i] % Pow2(r)])

BigIsOdd(a) == a # <<>> /\ a[1] % 2 = 1

\* The natural number a denotes, for an a that fits a TLC integer.
RECURSIVE BigToNat(_)
BigToNat(a) == IF a = <<>> THEN 0 ELSE a[1] + Base * BigToNat(Tail(a))

\* Binary long division, n steps: each step doubles the remainder r,
\* subtracts b if it can and appends the quotient bit to acc.
RECURSIVE BigDivBits(_, _, _, _)
BigDivBits(r, b, n, acc) ==
    IF n = 0 THEN [r |-> r, acc |-> acc]
    ELSE IF BigCmp(BigMulLimb(r, 2), b) >= 0
    THEN BigDivBits(BigSub(BigMulLimb(r, 2), b), b, n - 1, 2 * acc + 1)
    ELSE BigDivBits(BigMulLimb(r, 2), b, n - 1, 2 * acc)

\* (q, r) with a * 2^n = q * b + r and 0 <= r < b, for a < b: the n
\* quotient bits are produced from the most significant down, one limb at a
\* time; st is the remainder and the limb just produced, q the limbs before.
RECURSIVE BigDivShiftFrom(_, _, _, _, _)
BigDivShiftLimb(st, b, n, q) == BigDivShiftFrom(st.r, b, n, 0, <<st.acc>> \o q)

BigDivShiftFrom(r, b, n, acc, q) ==
    IF n = 0 THEN [q |-> BigTrim(q), r |-> r]
    ELSE BigDivShiftLimb(BigDivBits(r, b, ((n - 1) % LimbBits) + 1, acc), b,
                         n - (((n - 1) % LimbBits) + 1), q)

\* (q, r) with a * 2^n = q * b + r and 0 <= r < b, for a < 2 * b, n >= 1.
BigDivShift(a, b, n) ==
    IF BigCmp(a, b) >= 0
    THEN BigDivShiftFrom(BigSub(a, b), b, n, 1, <<>>)
    ELSE BigDivShiftFrom(a, b, n, 0, <<>>)

(***************************************************************************)
(* IEEE 754 binary64.  A value is a record: cls is "nan", "inf", "zero"    *)
(* or "fin"; a "fin" value is (-1)^neg * m * 2^e with 2^52 <= m < 2^53.    *)
(***************************************************************************)
MantBits == 53

F64Nan == [cls |-> "nan", neg |-> FALSE, m |-> <<>>, e |-> 0]

F64Inf(neg) == [cls |-> "inf", neg |-> neg, m |-> <<>>, e |-> 0]

F64Zero(neg) == [cls |-> "zero", neg |-> neg, m |-> <<>>, e |-> 0]

F64Fin(neg, m, e) == [cls |-> "fin", neg |-> neg, m |-> m, e |-> e]

\* The significand m1 after rounding: 2^53 is renormalised to 2^52.
F64Renorm(neg, m1, e) ==
    IF BigBitLen(m1) > MantBits THEN F64Fin(neg, BigShr(m1, 1), e + 1)
    ELSE F64Fin(neg, m1, e)

\* Rounds kept; c compares the discarded bits with half a unit in the last
\* place of kept (-1, 0, 1).
F64RoundKept(neg, kept, e, c, sticky) ==
    IF c = 1 \/ (c = 0 /\ (sticky \/ BigIsOdd(kept)))
    THEN F64Renorm(neg, BigAdd(kept, <<1>>), e)
    ELSE F64Renorm(neg, kept, e)

\* F64Round for an M of L bits.
F64RoundBits(neg, M, e, sticky, L) ==
    IF L = 0 THEN F64Zero(neg)
    ELSE IF L <= MantBits
    THEN F64Fin(neg, BigShl(M, MantBits - L), e - (MantBits - L))
    ELSE F64RoundKept(neg, BigShr(M, L - MantBits), e + (L - MantBits),
                      BigCmp(BigLow(M, L - MantBits), BigShl(<<1>>, L - MantBits - 1)),
                      sticky)

\* Nearest binary64 to (-1)^neg * (M + s) * 2^e, where 0 < s < 1 if sticky
\* and s = 0 otherwise; ties go to the even significand.  A sticky M has
\* more than MantBits bits.
F64Round(neg, M, e, sticky) == F64RoundBits(neg, M, e, sticky, BigBitLen(M))

\* `n as f64` for a u64 or a non-negative i64 n.
F64FromInt(n) == F64Round(FALSE, n, 0, FALSE)

\* x - y for the significands X and Y of x and y at the exponent e they
\* share; c compares X with Y.
F64SubAligned(xneg, yneg, X, Y, e, c) ==
    IF xneg = yneg /\ c = 0 THEN F64Zero(FALSE)
    ELSE F64Round(IF xneg # yneg \/ c > 0 THEN xneg ELSE ~xneg,
                  IF xneg # yneg THEN BigAdd(X, Y)
                  ELSE IF c > 0 THEN BigSub(X, Y) ELSE BigSub(Y, X),
                  e, FALSE)

\* x - y for finite nonzero x and y; emin is the smaller exponent.
F64SubFin(x, y, emin) ==
    F64SubAligned(x.neg, y.neg, BigShl(x.m, x.e - emin), BigShl(y.m, y.e - emin), emin,
                  BigCmp(BigShl(x.m, x.e - emin), BigShl(y.m, y.e - emin)))

\* x - y.
F64Sub(x, y) ==
    IF x.cls = "nan" \/ y.cls = "nan" THEN F64Nan
    ELSE IF x.cls = "inf"
    THEN IF y.cls = "inf" /\ y.neg = x.neg THEN F64Nan ELSE x
    ELSE IF y.cls = "inf" THEN F64Inf(~y.neg)
    ELSE IF y.cls = "zero"
    THEN IF x.cls = "zero" THEN F64Zero(x.neg /\ ~y.neg) ELSE x
    ELSE IF x.cls = "zero" THEN [y EXCEPT !.neg = ~y.neg]
    ELSE F64SubFin(x, y, IF x.e < y.e THEN x.e ELSE y.e)

\* The quotient d.q with remainder d.r, rounded.
F64DivQuot(neg, d, e) == F64Round(neg, d.q, e, d.r # <<>>)

\* x / y.
F64Div(x, y) ==
    IF x.cls = "nan" \/ y.cls = "nan" THEN F64Nan
    ELSE IF x.cls = "inf"
    THEN IF y.cls = "inf" THEN F64Nan ELSE F64Inf(x.neg # y.neg)
    ELSE IF y.cls = "inf" THEN F64Zero(x.neg # y.neg)
    ELSE IF y.cls = "zero"
    THEN IF x.cls = "zero" THEN F64Nan ELSE F64Inf(x.neg # y.neg)
    ELSE IF x.cls = "zero" THEN F64Zero(x.neg # y.neg)
    ELSE F64DivQuot(x.neg # y.neg, BigDivShift(x.m, y.m, MantBits + 2),
                    x.e - y.e - (MantBits + 2))

\* x * y.
F64Mul(x, y) ==
    IF x.cls = "nan" \/ y.cls = "nan" THEN F64Nan
    ELSE IF x.cls = "inf"
    THEN IF y.cls = "zero" THEN F64Nan ELSE F64Inf(x.neg # y.neg)
    ELSE IF y.cls = "inf"
    THEN IF x.cls = "zero" THEN F64Nan ELSE F64Inf(x.neg # y.neg)
    ELSE IF x.cls = "zero" \/ y.cls = "zero" THEN F64Zero(x.neg # y.neg)
    ELSE F64Round(x.neg # y.neg, BigMul(x.m, y.m), x.e + y.e, FALSE)

U64Bits == 64

\* u64::MAX = 2^64 - 1.
U64MaxBig == BigSub(BigShl(<<1>>, U64Bits), <<1>>)

\* The integer v as a u64, saturated.
U64Saturate(v) == IF BigCmp(v, U64MaxBig) > 0 THEN U64MaxBig ELSE v

\* `x as u64`: truncates toward zero and saturates; NaN gives 0.
F64ToU64(x) ==
    IF x.cls = "nan" \/ x.cls = "zero" \/ x.neg THEN <<>>
    ELSE IF x.cls = "inf" THEN U64MaxBig
    ELSE U64Saturate(IF x.e >= 0 THEN BigShl(x.m, x.e) ELSE BigShr(x.m, -x.e))

(***************************************************************************)
(* Integers of the program.                                                *)
(***************************************************************************)
Num(n) == BigFromNat(n)

Val(a) == BigToNat(a)

Lt(a, b) == BigCmp(a, b) < 0

Le(a, b) == BigCmp(a, b) <= 0

(***************************************************************************)
(* The calculator.  A Vesting is a record with the fields the calculator   *)
(* reads: start_balance, outstanding, whitelist_owned, start_ts, end_ts,   *)
(* period_count.  A u64-valued function that may panic returns             *)
(* [ok |-> TRUE, val |-> n] or Panicked.                                   *)
(***************************************************************************)
Returned(n) == [ok |-> TRUE, val |-> n]

Panicked == [ok |-> FALSE, val |-> <<>>]

Some(n) == [some |-> TRUE, val |-> n]

None == [some |-> FALSE, val |-> <<>>]

\* checked_sub as saturating_sub would have it: 0 instead of None.
checked_sub_saturating(a, b) == IF Le(b, a) THEN Some(BigSub(a, b)) ELSE Some(<<>>)

\* u64::checked_sub.
checked_sub(a, b) == IF Le(b, a) THEN Some(BigSub(a, b)) ELSE None

\* Option::unwrap.
unwrap(o) == IF o.some THEN Returned(o.val) ELSE Panicked

Min(a, b) == IF Le(a, b) THEN a ELSE b

\* The length of a single vesting period (line 54).
period_secs(vesting) ==
    F64Div(F64Sub(F64FromInt(vesting.end_ts), F64FromInt(vesting.start_ts)),
           F64FromInt(vesting.period_count))

\* The period current_ts is in (line 58).
current_period(vesting, current_ts) ==
    F64ToU64(F64Div(F64Sub(F64FromInt(current_ts), F64FromInt(vesting.start_ts)),
                    period_secs(vesting)))

\* Reward per period (line 61).
reward_per_period(vesting) ==
    F64Div(F64FromInt(vesting.start_balance), F64FromInt(vesting.period_count))

linear_unlock(vesting, current_ts) ==
    F64ToU64(F64Mul(F64FromInt(current_period(vesting, current_ts)),
                    reward_per_period(vesting)))

\* total_vested with the results of the first two branches exchanged.
total_vested_call_swapped(vesting, current_ts) ==
    IF Lt(current_ts, vesting.start_ts)
    THEN [branch |-> "before", result |-> vesting.start_balance]
    ELSE IF Le(vesting.end_ts, current_ts)
    THEN [branch |-> "after", result |-> <<>>]
    ELSE [branch |-> "linear", result |-> linear_unlock(vesting, current_ts)]

\* total_vested returning outstanding, not start_balance, from end_ts on.
total_vested_call_outstanding(vesting, current_ts) ==
    IF Lt(current_ts, vesting.start_ts)
    THEN [branch |-> "before", result |-> <<>>]
    ELSE IF Le(vesting.end_ts, current_ts)
    THEN [branch |-> "after", result |-> vesting.outstanding]
    ELSE [branch |-> "linear", result |-> linear_unlock(vesting, current_ts)]

\* total_vested testing current_ts > end_ts, not current_ts >= end_ts.
total_vested_call_gt(vesting, current_ts) ==
    IF Lt(current_ts, vesting.start_ts)
    THEN [branch |-> "before", result |-> <<>>]
    ELSE IF Lt(vesting.end_ts, current_ts)
    THEN [branch |-> "after", result |-> vesting.start_balance]
    ELSE [branch |-> "linear", result |-> linear_unlock(vesting, current_ts)]

\* The branch total_vested takes and its result.
total_vested_call(vesting, current_ts) ==
    IF Lt(current_ts, vesting.start_ts)
    THEN [branch |-> "before", result |-> <<>>]
    ELSE IF Le(vesting.end_ts, current_ts)
    THEN [branch |-> "after", result |-> vesting.start_balance]
    ELSE [branch |-> "linear", result |-> linear_unlock(vesting, current_ts)]

total_vested(vesting, current_ts) == total_vested_call(vesting, current_ts).result

withdrawn_amount(vesting) ==
    unwrap(checked_sub(vesting.start_balance, vesting.outstanding))

\* a.checked_sub(b).unwrap() for a b that may have panicked.
checked_sub_unwrap(a, b) ==
    IF ~b.ok THEN Panicked ELSE unwrap(checked_sub(a, b.val))

outstanding_vested(vesting, current_ts) ==
    checked_sub_unwrap(total_vested(vesting, current_ts), withdrawn_amount(vesting))

balance(vesting) ==
    unwrap(checked_sub(vesting.outstanding, vesting.whitelist_owned))

\* std::cmp::min(a, b) for an a and a b that may have panicked.
cmp_min(a, b) ==
    IF ~a.ok \/ ~b.ok THEN Panicked ELSE Returned(Min(a.val, b.val))

\* std::cmp::max in the place of std::cmp::min.
cmp_max(a, b) ==
    IF ~a.ok \/ ~b.ok THEN Panicked
    ELSE Returned(IF Le(b.val, a.val) THEN a.val ELSE b.val)

\* The first amount in the place of std::cmp::min.
cmp_first(a, b) == IF ~a.ok \/ ~b.ok THEN Panicked ELSE a

\* available_for_withdrawal taking the larger of the two amounts.
available_for_withdrawal_max(vesting, current_ts) ==
    cmp_max(outstanding_vested(vesting, current_ts), balance(vesting))

\* available_for_withdrawal that leaves out what is lent to whitelisted
\* programs.
available_for_withdrawal_vested(vesting, current_ts) ==
    cmp_first(outstanding_vested(vesting, current_ts), balance(vesting))

available_for_withdrawal(vesting, current_ts) ==
    cmp_min(outstanding_vested(vesting, current_ts), balance(vesting))

(***************************************************************************)
(* The inputs.  The calculator is a pure function of a Vesting and a       *)
(* timestamp; the state is the Vesting, the clock, and what the calls made *)
(* so far returned.  The calculator is called at every second from the     *)
(* clock's first value up to TsMargin after end_ts.                        *)
(***************************************************************************)
MaxBalance == 2

MaxStartTs == 0

MaxWindow == 18

MaxPeriodCount == 14

TsMargin == 1

SmallMaxBalance == 3

SmallMaxWindow == 3

SmallMaxPeriodCount == 3

WideMaxOffset == 3

WideMaxPeriodCount == 2

WideLead == 3

Vesting(start_balance, outstanding, whitelist_owned, start_ts, end_ts, period_count) ==
    [start_balance |-> start_balance, outstanding |-> outstanding,
     whitelist_owned |-> whitelist_owned, start_ts |-> start_ts,
     end_ts |-> end_ts, period_count |-> period_count]

\* tests::create_vesting: outstanding and whitelist_owned are 0.
create_vesting(start_balance, start_ts, end_ts, period_count) ==
    Vesting(Num(start_balance), Num(0), Num(0), Num(start_ts), Num(end_ts),
            Num(period_count))

\* The schedules of the three unit tests.
TestVestings ==
    {create_vesting(5, 10, 20, 2), create_vesting(5, 10, 21, 2),
     create_vesting(100, 30, 41, 6)}

StartTimes == TsMargin..(TsMargin + MaxStartTs)

\* Fresh records: nothing withdrawn, nothing lent to a whitelisted program.
FreshVestings(maxBalance, maxWindow, maxPeriodCount) ==
    {Vesting(Num(b), Num(b), Num(0), Num(s), Num(s + w), Num(n)) :
        b \in 0..maxBalance, s \in StartTimes, w \in 0..maxWindow,
        n \in 1..maxPeriodCount}

\* Records in any condition, the ones that break the record's invariants
\* (outstanding > start_balance, whitelist_owned > outstanding) included.
AnyVestings ==
    {Vesting(Num(b), Num(o), Num(wl), Num(s), Num(s + w), Num(n)) :
        b \in 0..SmallMaxBalance, o \in 0..(SmallMaxBalance + 1),
        wl \in 0..(SmallMaxBalance + 1), s \in StartTimes,
        w \in 0..SmallMaxWindow, n \in 1..SmallMaxPeriodCount}

\* 2^53 + k: from 2^53 on not every integer is an f64.
Wide(k) == BigAdd(BigShl(<<1>>, MantBits), Num(k))

\* Fresh records whose start_balance and end_ts are 2^53 or more, and whose
\* start_ts is small or 2^53 or more.
WideVestings ==
    UNION {{Vesting(Wide(b), Wide(b), Num(0), s, Wide(e), Num(n)) :
               b \in 0..WideMaxOffset, n \in 1..WideMaxPeriodCount,
               s \in {Num(TsMargin)} \cup {Wide(k) : k \in 0..e}} :
           e \in 0..WideMaxOffset}

VARIABLES vesting, current_ts, call, history, avail

vars == <<vesting, current_ts, call, history, avail>>

\* The calculator is called on vesting at time ts: call is the
\* total_vested call, history what total_vested returned at each time so
\* far, avail what available_for_withdrawal returned.
Calls(v, ts, h) ==
    /\ call' = total_vested_call(v, ts)
    /\ history' = [t \in DOMAIN h \cup {ts} |-> IF t = ts THEN call'.result ELSE h[t]]
    /\ avail' = available_for_withdrawal(v, ts)

\* The clock's first value: TsMargin before start_ts, WideLead before end_ts.
BeforeStart(v) == BigSub(v.start_ts, Num(TsMargin))

BeforeEnd(v) == BigSub(v.end_ts, Num(WideLead))

\* clocks is a set of pairs of a record and the clock's first value.
InitWith(clocks) ==
    /\ \E c \in clocks : vesting = c[1] /\ current_ts = c[2]
    /\ call = total_vested_call(vesting, current_ts)
    /\ history = [t \in {current_ts} |-> call.result]
    /\ avail = available_for_withdrawal(vesting, current_ts)

Init ==
    InitWith({<<v, BeforeStart(v)>> :
                 v \in FreshVestings(MaxBalance, MaxWindow, MaxPeriodCount)
                        \cup TestVestings})

InitAny == InitWith({<<v, BeforeStart(v)>> : v \in AnyVestings})

InitWide == InitWith({<<v, BeforeEnd(v)>> : v \in WideVestings})

InitLife ==
    InitWith({<<v, BeforeStart(v)>> :
                 v \in FreshVestings(SmallMaxBalance, SmallMaxWindow,
                                     SmallMaxPeriodCount)})

\* One second passes and the calculator is called.
Tick ==
    /\ Lt(current_ts, BigAdd(vesting.end_ts, Num(TsMargin)))
    /\ current_ts' = BigAdd(current_ts, Num(1))
    /\ UNCHANGED vesting
    /\ Calls(vesting, current_ts', history)

Next == Tick

Spec == Init /\ [][Next]_vars

SpecAny == InitAny /\ [][Next]_vars

SpecWide == InitWide /\ [][Next]_vars

(***************************************************************************)
(* The life of a record.  The operations that change outstanding and       *)
(* whitelist_owned belong to the lockup program, outside calculator.rs:    *)
(* a withdrawal takes at most available_for_withdrawal out of outstanding, *)
(* a whitelist withdrawal lends at most balance to a whitelisted program,  *)
(* a whitelist deposit returns part of what is lent.                       *)
(***************************************************************************)
\* amount <= r for a result r that is not a panic.
AtMost(amount, r) == r.ok /\ Le(amount, r.val)

Withdraw ==
    /\ \E amount \in 1..Val(vesting.start_balance) :
          /\ AtMost(Num(amount), available_for_withdrawal(vesting, current_ts))
          /\ vesting' = [vesting EXCEPT !.outstanding = BigSub(@, Num(amount))]
    /\ UNCHANGED current_ts
    /\ Calls(vesting', current_ts, history)

WhitelistWithdraw ==
    /\ \E amount \in 1..Val(vesting.start_balance) :
          /\ AtMost(Num(amount), balance(vesting))
          /\ vesting' = [vesting EXCEPT !.whitelist_owned = BigAdd(@, Num(amount))]
    /\ UNCHANGED current_ts
    /\ Calls(vesting', current_ts, history)

WhitelistDeposit ==
    /\ \E amount \in 1..Val(vesting.start_balance) :
          /\ Le(Num(amount), vesting.whitelist_owned)
          /\ vesting' = [vesting EXCEPT !.whitelist_owned = BigSub(@, Num(amount))]
    /\ UNCHANGED current_ts
    /\ Calls(vesting', current_ts, history)

NextLife == Tick \/ Withdraw \/ WhitelistWithdraw \/ WhitelistDeposit

SpecLife == InitLife /\ [][NextLife]_vars

(***************************************************************************)
(* The properties.  The record and the results as plain numbers, for the   *)
(* specifications whose values are small.                                  *)
(***************************************************************************)
StartBalance == Val(vesting.start_balance)

Outstanding == Val(vesting.outstanding)

WhitelistOwned == Val(vesting.whitelist_owned)

StartTs == Val(vesting.start_ts)

EndTs == Val(vesting.end_ts)

PeriodCount == Val(vesting.period_count)

Now == Val(current_ts)

Result == Val(call.result)

\* What has been withdrawn, and what the vault holds.
Withdrawn == StartBalance - Outstanding

InVault == Outstanding - WhitelistOwned

\* None of the three subtractions underflows.
NoUnderflow ==
    /\ Outstanding <= StartBalance
    /\ WhitelistOwned <= Outstanding
    /\ Withdrawn <= Result

\* C1: when neither outstanding_vested nor balance fails,
\* available_for_withdrawal is the smaller of total_vested - withdrawn and
\* outstanding - whitelist_owned, so it exceeds neither.
C1_AvailableIsMin ==
    (outstanding_vested(vesting, current_ts).ok /\ balance(vesting).ok) =>
        /\ avail.ok
        /\ Val(avail.val) <= InVault
        /\ Val(avail.val) <= Result - Withdrawn
        /\ Val(avail.val) = InVault \/ Val(avail.val) = Result - Withdrawn

C1_Witness ==
    /\ avail.ok
    /\ 0 < InVault
    /\ InVault < Result - Withdrawn
    /\ call.branch = "linear"

\* C2: available_for_withdrawal fails exactly when one of the three
\* subtractions underflows, and otherwise returns a value that is not a
\* wrapped one; outstanding > start_balance makes withdrawn_amount fail.
C2_FailsExactlyOnUnderflow ==
    /\ avail.ok <=> NoUnderflow
    /\ avail.ok => Val(avail.val) <= Outstanding
    /\ Outstanding > StartBalance => ~withdrawn_amount(vesting).ok

C2_Witness ==
    /\ ~avail.ok
    /\ Outstanding <= StartBalance
    /\ WhitelistOwned <= Outstanding
    /\ Withdrawn > Result

\* C3: total_vested never decreases as time passes: of two calls, the one
\* at the later time returned at least as much.
C3_Monotonic ==
    \A t1 \in DOMAIN history : \A t2 \in DOMAIN history :
        Le(t1, t2) => Le(history[t1], history[t2])

\* C4: total_vested never returns more than start_balance, in the linear
\* regime in particular.
C4_AtMostStartBalance ==
    /\ \A t \in DOMAIN history : Le(history[t], vesting.start_balance)
    /\ call.branch = "linear" => Le(call.result, vesting.start_balance)

\* The linear unlock in exact arithmetic: the period index
\* floor((t - start_ts) / ((end_ts - start_ts) / period_count)), then
\* floor(index * start_balance / period_count).
ExactCurrentPeriod(v, t) ==
    ((t - Val(v.start_ts)) * Val(v.period_count)) \div (Val(v.end_ts) - Val(v.start_ts))

ExactLinearUnlock(v, t) ==
    (ExactCurrentPeriod(v, t) * Val(v.start_balance)) \div Val(v.period_count)

\* What the claim lists for the schedules of the unit tests.
TestCases ==
    /\ (vesting = create_vesting(5, 10, 20, 2) /\ call.branch = "linear") =>
           Result = IF Now <= 14 THEN 0 ELSE 2
    /\ (vesting = create_vesting(5, 10, 21, 2) /\ call.branch = "linear") =>
           Result = IF Now <= 15 THEN 0 ELSE 2
    /\ (vesting = create_vesting(100, 30, 41, 6) /\ call.branch = "linear") =>
           Result = <<0, 0, 16, 16, 33, 33, 50, 50, 66, 66, 83>>[Now - 29]

\* C5: in the linear regime total_vested is the exact two-floor value, and
\* the unit tests' schedules give the listed values.
C5_LinearIsExactFloor ==
    /\ call.branch = "linear" => Result = ExactLinearUnlock(vesting, Now)
    /\ TestCases

\* C6: every call at a time before start_ts returned 0.
C6_ZeroBeforeStart ==
    /\ \A t \in DOMAIN history : Val(t) < StartTs => Val(history[t]) = 0
    /\ Now < StartTs => (call.branch = "before" /\ Result = 0)

C6_Witness ==
    /\ Now < StartTs
    /\ StartBalance > 0
    /\ Outstanding # StartBalance
    /\ WhitelistOwned > 0

\* C7: every call at a time from end_ts on returned start_balance.
C7_FullAtEnd ==
    /\ \A t \in DOMAIN history : Val(t) >= EndTs => Val(history[t]) = StartBalance
    /\ Now >= EndTs => (call.branch = "after" /\ Result = StartBalance)

C7_Witness ==
    /\ Now >= EndTs
    /\ StartBalance % PeriodCount # 0
    /\ Outstanding # StartBalance
    /\ \E t \in DOMAIN history :
          Val(t) = EndTs - 1 /\ Val(t) >= StartTs /\ Val(history[t]) < StartBalance

\* A boundary start_ts + k * (end_ts - start_ts) / period_count lies in
\* (t1, t2].
BoundaryBetween(t1, t2) ==
    \E k \in 0..PeriodCount :
        /\ t1 * PeriodCount < StartTs * PeriodCount + k * (EndTs - StartTs)
        /\ StartTs * PeriodCount + k * (EndTs - StartTs) <= t2 * PeriodCount

\* C8: two calls at times of the linear regime with no period boundary
\* between them returned the same amount.
C8_ConstantWithinPeriod ==
    \A t1 \in DOMAIN history : \A t2 \in DOMAIN history :
        (/\ StartTs <= Val(t1)
         /\ Val(t1) <= Val(t2)
         /\ Val(t2) < EndTs
         /\ ~BoundaryBetween(Val(t1), Val(t2))) => history[t1] = history[t2]

\* C9: total_vested returns a u64 at every time, and with start_ts = end_ts
\* it never takes the linear branch, which is taken only inside a window
\* that is not empty.
C9_NoError ==
    /\ Le(call.result, U64MaxBig)
    /\ call.branch \in {"before", "after", "linear"}
    /\ StartTs = EndTs => call.branch # "linear"
    /\ call.branch = "linear" => (StartTs <= Now /\ Now < EndTs)

C9_Witness ==
    /\ StartTs = EndTs
    /\ Now = StartTs
    /\ call.branch = "after"
    /\ StartBalance > 0

\* C10: a record that starts fresh and follows the schedule keeps
\* whitelist_owned <= outstanding <= start_balance and withdrawn <=
\* total_vested(now), so available_for_withdrawal does not fail on it.
C10_RecordStaysSound ==
    /\ NoUnderflow
    /\ avail.ok

C10_Witness ==
    /\ Withdrawn > 0
    /\ WhitelistOwned > 0
    /\ call.branch = "linear"
    /\ Outstanding > WhitelistOwned

====
